---- MODULE Spec2Model ----
(***************************************************************************)
(* Model of the oblate load / assignment pipeline.                         *)
(*                                                                         *)
(* A schema type with two declared fields is loaded from raw mappings and  *)
(* its initialized instances are updated by field assignment.  User code   *)
(* (validators, default producers) is the environment: the outcome of      *)
(* every validator call is chosen nondeterministically among the ways a    *)
(* callback can end.                                                       *)
(*                                                                         *)
(*   Schema.__init__, _prepare_from_data, _process_field_value             *)
(*                                         src/oblate/schema.py            *)
(*   Field.__init__, __set__, _run_validators, copy                        *)
(*                                         src/oblate/fields/base.py       *)
(*   Integer._process_value                src/oblate/fields/primitive.py  *)
(*   FieldError, ValidationError           src/oblate/exceptions.py        *)
(***************************************************************************)
EXTENDS Integers, Sequences, FiniteSets, TLC

(***************************************************************************)
(* Bounds of the model.                                                    *)
(***************************************************************************)
\* largest number of (key, value) pairs of an input mapping
MaxData == 2
\* number of normal validators registered on field "a"
NumValidators == 2
\* largest number of Field objects a program creates
MaxObjects == 2
MaxArity == 2
MaxItems == 3

(***************************************************************************)
(* Values.  Raw and coerced values are strings: "i1" is the int 1, "s1"    *)
(* the str '1', "sx" a str that is no number.                              *)
(***************************************************************************)
MISSING == "MISSING"
None == "None"
Ints == {"i1", "i2", "i7"}
\* the values given in input mappings, and the values assigned to fields
RawValues == {None, "i1", "s1", "sx"}
SetValues == {None, "i2", "s1", "sx"}

\* the schema type's declared attribute names, in declaration order
FieldOrder == <<"a", "b">>
Names == {FieldOrder[n] : n \in 1..Len(FieldOrder)}
\* an input key that matches no declared field
ExtraKey == "x"
Keys == Names \cup {ExtraKey}
Insts == {"A", "B"}

\* the ways a validator call can end: it returns a truthy value, returns
\* None (or another falsy value), raises the library's field error, or
\* raises ValueError / AssertionError
Outcomes == {"true", "none", "field_error", "value_error"}

VARIABLES
    insts,          \* the instances the program constructs
    fields,         \* Schema.__fields__: name -> Field configuration
    ignore_extra,   \* SchemaConfig.ignore_extra of the schema type
    field_values,   \* Schema._field_values of each instance (MISSING: no key)
    initialized,    \* SchemaContext._initialized of each instance
    pc,             \* position of the running call ("idle": none running)
    op,             \* the running call: its kind, instance, field, old value
    data,           \* the mapping given to the running load
    pos,            \* index of the next pair of data
    remaining,      \* local `fields` of _prepare_from_data (not yet popped)
    validators,     \* local `validators` queue of _prepare_from_data
    errors,         \* local `errors` / `errs` list of the running call
    calls,          \* user / field callbacks invoked by the running call
    outcome,        \* how the last finished call ended
    out,            \* local `out` of the running dump: the items emitted
    current_schema,     \* the context variable current_schema ("unset": not set)
    current_field_key,  \* the context variable current_field_key
    current_context,    \* the context variable current_context
    entry,          \* what the three were bound to when the running call began
    type_expr,      \* the arguments of the tuple type given to the TypeValidator
    checked,        \* the value given to TypeValidator.validate
    validation,     \* what validate returned: (validated, errors)
    type_fields,    \* the __fields__ attribute of each schema type: the dict it names
    dicts,          \* the registry dicts: the (name, Field object) items of each
    bindings,       \* _name and _schema of each Field object
    defining,       \* the last class statement: its type, body and end
    lists,          \* the list objects of the program: the callbacks each holds
    field_lists,    \* the lists that _raw_validators and _validators of each
                    \* Field object name
    config,         \* GlobalConfig._values of oblate.config: the class stored
                    \* for validation_error_cls ("unset": no key)
    validation_fail_exception,  \* config._glob_config.validation_fail_exception
    configuring     \* the last configuration call: its kind, argument and end

\* the state of the configuration, of the schema types and Field objects,
\* and of the calls
configvars == <<config, validation_fail_exception, configuring>>
typevars == <<type_expr, checked, validation>>
classvars == <<type_fields, dicts, bindings, defining, lists, field_lists, configvars, typevars>>
callvars == <<insts, fields, ignore_extra, field_values, initialized, pc, op, data, pos,
              remaining, validators, errors, calls, outcome, out, current_schema,
              current_field_key, current_context, entry>>
vars == <<insts, fields, ignore_extra, field_values, initialized, pc, op, data, pos,
          remaining, validators, errors, calls, outcome, out, current_schema,
          current_field_key, current_context, entry, type_expr, checked, validation,
          type_fields, dicts, bindings,
          defining, lists, field_lists, config, validation_fail_exception, configuring>>

(***************************************************************************)
(* Field configuration                                                     *)
(***************************************************************************)
\* Field.__init__ / BasePrimitiveField.__init__ (strict shorthand)
Field__init__(kind, missing, none, default, strict, raw_validators, normal_validators) ==
    [kind            |-> kind,
     missing         |-> missing \/ (default # MISSING),
     none            |-> none,
     default         |-> default,
     strict_load     |-> strict,
     strict_set      |-> strict,
     load_key        |-> None,
     dump_key        |-> None,
     _raw_validators |-> raw_validators,
     _validators     |-> normal_validators]

\* Field.__init__ with load_key and dump_key given
WithKeys(field, load_key, dump_key) ==
    [field EXCEPT !.load_key = load_key, !.dump_key = dump_key]

\* a validator callback: `raw` is the flag it was declared with, which the
\* validate.field decorator keeps on it as __validator_is_raw__
Validator(id, raw) == [id |-> id, raw |-> raw]

\* Field.add_validator(callback, raw=raw)
add_validator(field, callback, raw) ==
    IF raw
    THEN [field EXCEPT !._raw_validators = Append(@, callback)]
    ELSE [field EXCEPT !._validators = Append(@, callback)]

\* Schema.__init_subclass__ for a member decorated with validate.field:
\* `field.add_validator(member)`
RegisterMember(field, member) == add_validator(field, member, FALSE)

\* Field.copy(**overrides): a shallow copy on which every override is set
\* with setattr
copy(field, overrides) ==
    [attr \in DOMAIN field |->
        IF attr \in DOMAIN overrides THEN overrides[attr] ELSE field[attr]]

\* `field.required` as read by _prepare_from_data
required(field) == ~field.missing

\* `callable(field._default)`
callable(default) == default = "producer"

\* the value a default resolves to (the producer returns 7)
ResolveDefault(default) == IF callable(default) THEN "i7" ELSE default

(***************************************************************************)
(* Errors                                                                  *)
(***************************************************************************)
\* LoadContext(field=..., value=...) / DumpContext(field=..., value=...),
\* and the absence of a context (`current_context.get(None)` is None)
ValueContext(name, value) == [field |-> name, value |-> value]
NoContext == [field |-> "none", value |-> "none"]

\* the three context variables as a record, and their state in a program
\* that has set none of them
Ambient == [schema |-> current_schema, key |-> current_field_key, context |-> current_context]
NoAmbient == [schema |-> "unset", key |-> "unset", context |-> NoContext]

\* FieldError(message): the key is the field key current at creation; the
\* context is the one current at creation, which the caller puts in
FieldError(key, code, message) ==
    [key |-> key, code |-> code, message |-> message, context |-> NoContext]

\* errors created while the given context was the current one
Attach(errs, context) == [n \in DOMAIN errs |-> [errs[n] EXCEPT !.context = context]]

\* FieldError._from_standard_error: an empty message gets the
\* validation-failed fallback
FromStandardError(key, message) ==
    IF message = ""
    THEN FieldError(key, "validation_failed", "Validation failed for this field.")
    ELSE FieldError(key, "standard_error", message)

\* ValidationError._raw_std: key -> messages, in occurrence order
Raw(errs) ==
    [k \in {errs[n].key : n \in 1..Len(errs)} |->
        LET mine == SelectSeq(errs, LAMBDA e : e.key = k)
        IN  [n \in 1..Len(mine) |-> mine[n].message]]

\* `isinstance(error.message, (list, tuple, set))`: an error whose message
\* is a sequence of messages has the code "sequence"
IsSequenceMessage(e) == e.code = "sequence"

\* FieldError._copy_with(message), for the elements of a sequence message
_copy_with(e, message) == [e EXCEPT !.message = message, !.code = "element"]

\* ValidationError.__init__ -> _flatten_errors: `self.errors` starts as a
\* copy of the errors collected; every error with a sequence message is
\* removed from it and one copy per element is appended to it
_flatten_errors(errs) ==
    LET \* what the removals leave of the copy: the other errors, in order
        left == SelectSeq(errs, LAMBDA e : ~IsSequenceMessage(e))
        \* what has been appended after the first n errors were visited
        Appended[n \in 0..Len(errs)] ==
            IF n = 0 THEN <<>>
            ELSE IF ~IsSequenceMessage(errs[n]) THEN Appended[n - 1]
            ELSE Appended[n - 1] \o
                 [m \in 1..Len(errs[n].message) |-> _copy_with(errs[n], errs[n].message[m])]
    IN  left \o Appended[Len(errs)]

\* the keys of the dict that _raw_std builds, in insertion order
RawKeys(errs) ==
    LET Step[n \in 0..Len(errs)] ==
            IF n = 0 THEN <<>>
            ELSE IF \E m \in 1..(n - 1) : errs[m].key = errs[n].key THEN Step[n - 1]
            ELSE Append(Step[n - 1], errs[n].key)
    IN  Step[Len(errs)]

(***************************************************************************)
(* Coercion                                                                *)
(***************************************************************************)
Ok(value) == [ok |-> TRUE, value |-> value, exc |-> "", code |-> "", message |-> ""]
Raise(exc, code, message) ==
    [ok |-> FALSE, value |-> MISSING, exc |-> exc, code |-> code, message |-> message]

\* BasePrimitiveField.__init__ with strict_load and strict_set given
\* separately
WithStrict(field, strict_load, strict_set) ==
    [field EXCEPT !.strict_load = strict_load, !.strict_set = strict_set]

\* _check_strict reading the `strict` property whatever the call is
_check_strict_both(field, load, init) == field.strict_load /\ field.strict_set

\* BasePrimitiveField._check_strict
_check_strict(field, load, init) ==
    IF load THEN field.strict_load
    ELSE IF init THEN field.strict_set
    ELSE field.strict_load /\ field.strict_set

\* int(value): '1' converts, 'x' and None do not
IntConvertible(value) == value = "s1"
IntOf(value) == "i1"

\* Integer._process_value
Integer_process_value(field, value, load, init) ==
    IF value \notin Ints
    THEN IF _check_strict(field, load, init)
         THEN Raise("FieldError", "invalid_datatype",
                    "Value for this field must be of integer data type.")
         ELSE IF IntConvertible(value)
              THEN Ok(IntOf(value))
              ELSE Raise("FieldError", "nonconvertible",
                         "Value for this field must be an integer-convertable value.")
    ELSE Ok(value)

\* a user field whose conversion raises standard errors (tests/test_errors.py)
\* and, for "e0", a FieldError whose message is the empty list
Custom_process_value(value) ==
    IF value = "sx" THEN Raise("ValueError", "", "value")
    ELSE IF value = "s1" THEN Raise("AssertionError", "", "")
    ELSE IF value = "e0" THEN Raise("FieldError", "sequence", <<>>)
    ELSE Ok(value)

\* the dicts given to a Dict[str, int] field: "d00" is well typed, "d01"
\* has one item of the wrong type and "d02" two
Dicts == {"d00", "d01", "d02"}

\* validate_struct(value, tp, stack_errors=True): the messages, one per
\* item of the wrong type
validate_struct(value) ==
    CASE value = "d00" -> <<>>
      [] value = "d01" -> <<"Dict value for key 'k1': Must be of type int">>
      [] value = "d02" -> <<"Dict value for key 'k1': Must be of type int",
                            "Dict value for key 'k2': Must be of type int">>

\* Dict.value_load: the error of a dict that fails type validation is
\* FieldError(errors), whose message is the list of messages
Dict_value_load(value) ==
    IF value \notin Dicts
    THEN Raise("FieldError", "invalid_datatype", "Value must be a dictionary")
    ELSE IF validate_struct(value) # <<>>
    THEN Raise("FieldError", "sequence", validate_struct(value))
    ELSE Ok(value)

(***************************************************************************)
(* Nested schemas.  The nested schema type has two required strict Integer *)
(* fields.  The mappings given for an Object field are named by strings:   *)
(* "m12" is {'id': 1, 'rating': 2}, "m1_" lacks 'rating', "m1x" has the    *)
(* str 'x' for it, "m__" is empty.  "o12" is the instance loaded from      *)
(* "m12".                                                                  *)
(***************************************************************************)
NestedOrder == <<"id", "rating">>
NestedNames == {NestedOrder[n] : n \in 1..Len(NestedOrder)}
NestedField == Field__init__("Integer", FALSE, FALSE, MISSING, TRUE, <<>>, <<>>)
Mappings == {"m11", "m12", "m1_", "m1x", "m__"}
NestedInstances == {"o11", "o12"}

\* the items of a mapping
Items(m) ==
    CASE m = "m11" -> <<<<"id", "i1">>, <<"rating", "i1">>>>
      [] m = "m12" -> <<<<"id", "i1">>, <<"rating", "i2">>>>
      [] m = "m1_" -> <<<<"id", "i1">>>>
      [] m = "m1x" -> <<<<"id", "i1">>, <<"rating", "sx">>>>
      [] m = "m__" -> <<>>

\* the instance of the nested schema type with the given field values, and
\* the field values of an instance
InstanceWith(fv) == IF fv = [id |-> "i1", rating |-> "i1"] THEN "o11" ELSE "o12"
ValuesOf(o) == IF o = "o11" THEN [id |-> "i1", rating |-> "i1"]
               ELSE [id |-> "i1", rating |-> "i2"]

\* the load of a mapping into the nested schema type: the errors of its key
\* loop and of its missing-field pass, and the values stored
_from_nested_object(m) ==
    LET d == Items(m)
        keys == {d[n][1] : n \in DOMAIN d}
        PairError(n) ==
            LET r == Integer_process_value(NestedField, d[n][2], TRUE, FALSE)
            IN  IF r.ok THEN <<>> ELSE <<FieldError(d[n][1], r.code, r.message)>>
        KeyErrors[n \in 0..Len(d)] ==
            IF n = 0 THEN <<>> ELSE KeyErrors[n - 1] \o PairError(n)
        MissingErrors[n \in 0..Len(NestedOrder)] ==
            IF n = 0 THEN <<>>
            ELSE IF NestedOrder[n] \in keys THEN MissingErrors[n - 1]
            ELSE Append(MissingErrors[n - 1],
                        FieldError(NestedOrder[n], "required", "This field is required."))
        errs == KeyErrors[Len(d)] \o MissingErrors[Len(NestedOrder)]
    IN  [errors |-> errs,
         values |-> [k \in NestedNames |->
                        IF \E n \in DOMAIN d : d[n][1] = k
                        THEN d[CHOOSE n \in DOMAIN d : d[n][1] = k][2]
                        ELSE MISSING]]

\* Object.value_load keeping only the first error of the nested load
Object_value_load_first(value) ==
    LET r == _from_nested_object(value)
    IN  IF r.errors = <<>>
        THEN Ok(InstanceWith(r.values))
        ELSE Raise("FieldError", "nested", Raw(<<r.errors[1]>>))

\* Object.value_load: the nested aggregate is caught and raised again as one
\* field error with the aggregate's raw() as its message
Object_value_load(value) ==
    LET r == _from_nested_object(value)
    IN  IF r.errors = <<>>
        THEN Ok(InstanceWith(r.values))
        ELSE Raise("FieldError", "nested", Raw(r.errors))

\* Object.value_set: a mapping is loaded, an instance of the schema type is
\* taken as it is, anything else is of the wrong type
Object_value_set(value) ==
    IF value \in Mappings THEN Object_value_load(value)
    ELSE IF value \in NestedInstances THEN Ok(value)
    ELSE Raise("FieldError", "invalid_datatype", "Value for this field must be a User object.")

value_load(field, value) ==
    IF field.kind = "Integer"
    THEN Integer_process_value(field, value, TRUE, FALSE)
    ELSE IF field.kind = "Object"
    THEN Object_value_load(value)
    ELSE IF field.kind = "Dict"
    THEN Dict_value_load(value)
    ELSE Custom_process_value(value)

value_set(field, value) ==
    IF field.kind = "Integer"
    THEN Integer_process_value(field, value, FALSE, TRUE)
    ELSE IF field.kind = "Object"
    THEN Object_value_set(value)
    ELSE Custom_process_value(value)

(***************************************************************************)
(* Callback log                                                            *)
(***************************************************************************)
Call(fn, name, value, raw, idx, result) ==
    [fn |-> fn, field |-> name, value |-> value, raw |-> raw, idx |-> idx, out |-> result]

(***************************************************************************)
(* Validators                                                              *)
(***************************************************************************)
ValidatorList(name, raw) ==
    IF raw THEN fields[name]._raw_validators ELSE fields[name]._validators

\* index of the first validator whose exception _run_validators does not
\* catch (0: none)
FirstEscape(outs) ==
    IF \E n \in DOMAIN outs : outs[n] = "value_error"
    THEN CHOOSE n \in DOMAIN outs :
            /\ outs[n] = "value_error"
            /\ \A m \in 1..(n - 1) : outs[m] # "value_error"
    ELSE 0

\* Field._run_validators: every validator of the list is called in order; a
\* falsy return is turned into the validation-failed error; only the
\* library's own error class is caught.  outs[n] is how the n-th call ends.
_run_validators(name, value, raw, outs) ==
    LET n     == Len(outs)
        esc   == FirstEscape(outs)
        ran   == IF esc = 0 THEN n ELSE esc
        errAt(m) ==
            IF outs[m] = "none"
            THEN <<FieldError(name, "validation_failed", "Validation failed for this field.")>>
            ELSE IF outs[m] = "field_error"
            THEN <<FieldError(name, "validator_error", "raised by validator")>>
            ELSE <<>>
        Collect[m \in 0..n] ==
            IF m = 0 THEN <<>> ELSE Collect[m - 1] \o errAt(m)
    IN  [escaped |-> esc # 0,
         errors  |-> Collect[IF esc = 0 THEN n ELSE esc - 1],
         calls   |-> [m \in 1..ran |->
                        Call("validator", name, value, raw, m, outs[m])]]

(***************************************************************************)
(* Load: Schema.__init__ -> _prepare_from_data                             *)
(***************************************************************************)
\* `if field._raw_validators and lazy_validation: validators.append(...)`
QueueRaw(queue, name, value) ==
    IF fields[name]._raw_validators # <<>>
    THEN Append(queue, [field |-> name, value |-> value, raw |-> TRUE])
    ELSE queue

\* `if value is None`: a nullable field stores None, any other field gets
\* the none-disallowed error; nothing else is done with the value
LoadNone(fv, queue, name) ==
    IF fields[name].none
    THEN [errors |-> <<>>, fv |-> [fv EXCEPT ![name] = None],
          queue |-> queue, calls |-> <<>>]
    ELSE [errors |-> <<FieldError(name, "none_disallowed",
                                  "This field cannot take a None value.")>>,
          fv |-> fv, queue |-> queue, calls |-> <<>>]

\* the error appended when value_load raises: a FieldError as it is, a
\* ValueError / AssertionError wrapped
LoadError(name, r) ==
    IF r.exc = "FieldError"
    THEN FieldError(name, r.code, r.message)
    ELSE FromStandardError(name, r.message)

\* LoadCoerce without the early end of the error branch: the normal
\* validators are queued whether or not value_load raised
LoadCoerce_queue_anyway(fv, queue, name, value) ==
    LET r == value_load(fields[name], value)
        c == <<Call("value_load", name, value, FALSE, 0, "")>>
        v == IF r.ok THEN r.value ELSE value
    IN  [errors |-> IF r.ok THEN <<>> ELSE <<LoadError(name, r)>>,
         fv     |-> IF r.ok THEN [fv EXCEPT ![name] = r.value] ELSE fv,
         queue  |-> Append(queue, [field |-> name, value |-> v, raw |-> FALSE]),
         calls  |-> c]

\* `try: final_value = field.value_load(value, context)`: on an error the
\* error is appended and nothing is stored or queued; otherwise the normal
\* validators are queued and the value is stored
LoadCoerce(fv, queue, name, value) ==
    LET r == value_load(fields[name], value)
        c == <<Call("value_load", name, value, FALSE, 0, "")>>
    IN  IF ~r.ok
        THEN [errors |-> <<LoadError(name, r)>>, fv |-> fv, queue |-> queue, calls |-> c]
        ELSE [errors |-> <<>>,
              fv     |-> [fv EXCEPT ![name] = r.value],
              queue  |-> Append(queue, [field |-> name, value |-> r.value, raw |-> FALSE]),
              calls  |-> c]

\* _process_field_value without the `if value is None` branch: None is
\* handed to value_load like any other value
_process_field_value_coerce_none(fv, queue, name, value) ==
    LoadCoerce(fv, QueueRaw(queue, name, value), name, value)

\* Schema._process_field_value with the lazy `validators` list given, as
\* _prepare_from_data calls it
_process_field_value(fv, queue, name, value) ==
    IF value = None
    THEN LoadNone(fv, QueueRaw(queue, name, value), name)
    ELSE LoadCoerce(fv, QueueRaw(queue, name, value), name, value)

\* the second loop of _prepare_from_data over the fields left in `fields`:
\* the state after the fields FieldOrder[1..n] have been handled
MissingPass(fv, left, n) ==
    LET Step[m \in 0..n] ==
            IF m = 0 THEN [fv |-> fv, errors |-> <<>>, calls |-> <<>>]
            ELSE LET prev  == Step[m - 1]
                     name  == FieldOrder[m]
                     field == fields[name]
                 IN  IF name \notin left THEN prev
                     ELSE [errors |-> IF required(field)
                                      THEN Append(prev.errors,
                                                  FieldError(name, "required", "This field is required."))
                                      ELSE prev.errors,
                           fv     |-> IF field.default # MISSING
                                      THEN [prev.fv EXCEPT ![name] = ResolveDefault(field.default)]
                                      ELSE prev.fv,
                           calls  |-> IF field.default # MISSING /\ callable(field.default)
                                      THEN Append(prev.calls, Call("default", name, MISSING, FALSE, 0, ""))
                                      ELSE prev.calls]
    IN  Step[n]

\* the input mappings: sequences of pairs with distinct keys; None is given
\* to field "a", which has every null policy, and to "b" in the mappings
\* that give None to "a" after it
DataSets ==
    {d \in UNION {[1..n -> Keys \X RawValues] : n \in 0..MaxData} :
        /\ \A m, n \in DOMAIN d : m # n => d[m][1] # d[n][1]
        /\ \A n \in DOMAIN d : d[n][1] = ExtraKey => d[n][2] = "i1"
        /\ \A n \in DOMAIN d : (d[n][1] = "b" /\ d[n][2] = None) =>
               \E m \in DOMAIN d : m > n /\ d[m] = <<"a", None>>}

NoValues == [n \in Names |-> MISSING]
Idle == [kind |-> "none", inst |-> "A", field |-> "a", old_value |-> MISSING,
         before |-> NoValues]
NoOutcome == [op |-> "none", inst |-> "A", result |-> "none", errors |-> <<>>]

\* a write that lands in a mapping kept on the schema type: every instance
\* sees it
SetFieldValues_on_type(all, inst, fv) == [i \in DOMAIN all |-> fv]

\* a write to `self._field_values` / `instance._field_values`: the mapping
\* belongs to the instance
SetFieldValues(all, inst, fv) == [all EXCEPT ![inst] = fv]

\* Field.__get__: the value is read from the instance's _field_values
\* (MISSING: AttributeError)
__get__(inst, name) == field_values[inst][name]

\* the value that the mapping given to the running load has for a key
DataValue(name) == data[CHOOSE n \in DOMAIN data : data[n][1] = name][2]

\* Schema.__init__: current_schema is set to the new instance, which has an
\* empty _field_values and a fresh context, then _prepare_from_data starts
LoadBegin(inst, d) ==
    /\ pc = "idle"
    /\ inst \in insts
    /\ ~initialized[inst]
    /\ pc' = "keys"
    /\ op' = [kind |-> "load", inst |-> inst, field |-> "a", old_value |-> MISSING,
              before |-> NoValues]
    /\ field_values' = SetFieldValues(field_values, inst, NoValues)
    /\ initialized' = [initialized EXCEPT ![inst] = FALSE]
    /\ data' = d
    /\ pos' = 1
    /\ remaining' = Names
    /\ validators' = <<>>
    /\ errors' = <<>>
    /\ calls' = <<>>
    /\ outcome' = [op |-> "load", inst |-> inst, result |-> "running", errors |-> <<>>]
    /\ entry' = Ambient
    /\ current_schema' = inst
    /\ UNCHANGED <<classvars, out, insts, fields, ignore_extra, current_field_key, current_context>>

\* one iteration of `for name, value in data.items()`.  The field key is
\* set for the iteration and reset at its end.  _process_field_value sets
\* current_context to the context of the pair and resets it in the
\* `finally` of its `try`, which the early return for None does not reach
LoadPair ==
    /\ pc = "keys"
    /\ pos <= Len(data)
    /\ LET name  == data[pos][1]
           value == data[pos][2]
       IN  IF name \notin remaining
           THEN /\ errors' = errors \o
                        Attach(<<FieldError(name, "unknown_field", "Invalid or unknown field.")>>,
                               current_context)
                /\ UNCHANGED <<field_values, remaining, validators, calls, current_context>>
           ELSE LET r == _process_field_value(field_values[op.inst], validators, name, value)
                IN  /\ remaining' = remaining \ {name}
                    /\ errors' = errors \o Attach(r.errors, ValueContext(name, value))
                    /\ field_values' = SetFieldValues(field_values, op.inst, r.fv)
                    /\ validators' = r.queue
                    /\ calls' = calls \o r.calls
                    /\ current_context' = IF value = None THEN ValueContext(name, value)
                                          ELSE current_context
    /\ pos' = pos + 1
    /\ UNCHANGED <<classvars, out, insts, fields, ignore_extra, initialized, pc, op, data, outcome,
                   current_schema, current_field_key, entry>>

\* `for name, field in fields.items()`: required errors and defaults
LoadMissing ==
    /\ pc = "keys"
    /\ pos > Len(data)
    /\ LET r == MissingPass(field_values[op.inst], remaining, Len(FieldOrder))
       IN  /\ errors' = errors \o Attach(r.errors, current_context)
           /\ field_values' = SetFieldValues(field_values, op.inst, r.fv)
           /\ calls' = calls \o r.calls
    /\ pc' = "validators"
    /\ UNCHANGED <<classvars, out, insts, fields, ignore_extra, initialized, op, data, pos, remaining,
                   validators, outcome, current_schema, current_field_key, current_context, entry>>

\* one iteration of `for field, value, context, raw in validators`, or one
\* of the two _run_validators calls of Field.__set__; an exception that
\* _run_validators does not catch ends the whole call.  In a load the
\* context queued with the entry (that of the pair), the field key and the
\* schema are set for the iteration and reset at its end; an exception
\* leaves through the `finally` of Schema.__init__
RunValidators ==
    /\ pc = "validators"
    /\ validators # <<>>
    /\ LET e == Head(validators)
       IN  \E outs \in [1..Len(ValidatorList(e.field, e.raw)) -> Outcomes] :
              LET r == _run_validators(e.field, e.value, e.raw, outs)
              IN  /\ calls' = calls \o r.calls
                  /\ IF r.escaped
                     THEN /\ pc' = "done"
                          /\ validators' = <<>>
                          /\ outcome' = [outcome EXCEPT !.result = "escaped", !.errors = errors]
                          /\ current_schema' = IF op.kind = "load" THEN entry.schema
                                               ELSE current_schema
                          /\ UNCHANGED errors
                     ELSE /\ errors' = errors \o
                                (IF op.kind = "load"
                                 THEN Attach(r.errors, ValueContext(e.field, DataValue(e.field)))
                                 ELSE r.errors)
                          /\ validators' = Tail(validators)
                          /\ UNCHANGED <<pc, outcome, current_schema>>
    /\ UNCHANGED <<classvars, out, insts, fields, ignore_extra, field_values, initialized, op, data, pos,
                   remaining, current_field_key, current_context, entry>>

\* the end of _prepare_from_data: raise the aggregate or mark initialized;
\* either way Schema.__init__ resets current_schema
LoadEnd ==
    /\ pc = "validators"
    /\ op.kind = "load"
    /\ validators = <<>>
    /\ IF errors # <<>>
       THEN /\ outcome' = [outcome EXCEPT !.result = "raised",
                                          !.errors = _flatten_errors(errors)]
            /\ UNCHANGED initialized
       ELSE /\ outcome' = [outcome EXCEPT !.result = "returned"]
            /\ initialized' = [initialized EXCEPT ![op.inst] = TRUE]
    /\ pc' = "done"
    /\ current_schema' = entry.schema
    /\ UNCHANGED <<classvars, out, insts, fields, ignore_extra, field_values, op, data, pos, remaining,
                   validators, errors, calls, current_field_key, current_context, entry>>

(***************************************************************************)
(* Assignment: Field.__set__                                               *)
(***************************************************************************)
\* Field.__set__ up to the two _run_validators calls.  Instances built by
\* Schema.__init__ are never partial, so the disallowed-field branch is not
\* taken.  The result is the state of the call after value_set.
SetStart(fv, name, value) ==
    LET field == fields[name]
        \* `if value is None`: a nullable field stores None at once
        fv1   == IF value = None /\ field.none THEN [fv EXCEPT ![name] = None] ELSE fv
        errs  == IF value = None /\ ~field.none
                 THEN <<FieldError(name, "none_disallowed", "Value for this field cannot be None")>>
                 ELSE <<>>
        run   == ~(value = None /\ ~field.none)
        \* `old_value = values.get(name, MISSING)`, read after the line above
        old   == fv1[name]
        r     == value_set(field, value)
        c     == <<Call("value_set", name, value, FALSE, 0, "")>>
    IN  IF errs # <<>>
        THEN [fv |-> fv1, errors |-> errs, queue |-> <<>>, calls |-> <<>>,
              old_value |-> MISSING, escaped |-> FALSE]
        ELSE IF r.ok
        THEN [fv |-> [fv1 EXCEPT ![name] = r.value], errors |-> <<>>,
              queue |-> IF run
                        THEN <<[field |-> name, value |-> value, raw |-> TRUE],
                               [field |-> name, value |-> r.value, raw |-> FALSE]>>
                        ELSE <<>>,
              calls |-> c, old_value |-> old, escaped |-> FALSE]
        ELSE IF r.exc = "FieldError"
        THEN \* `except ValidationError`: the error is bound to the field
             [fv |-> fv1, errors |-> <<FieldError(name, r.code, r.message)>>,
              queue |-> <<>>, calls |-> c, old_value |-> MISSING, escaped |-> FALSE]
        ELSE \* any other exception leaves __set__
             [fv |-> fv1, errors |-> <<>>, queue |-> <<>>, calls |-> c,
              old_value |-> MISSING, escaped |-> TRUE]

SetBegin(inst, name, value) ==
    /\ pc = "idle"
    /\ initialized[inst]
    /\ LET r == SetStart(field_values[inst], name, value)
       IN  /\ field_values' = SetFieldValues(field_values, inst, r.fv)
           /\ errors' = r.errors
           /\ validators' = r.queue
           /\ calls' = r.calls
           /\ op' = [kind |-> "set", inst |-> inst, field |-> name, old_value |-> r.old_value,
                   before |-> field_values[inst]]
           /\ pc' = IF r.escaped THEN "done" ELSE "validators"
           /\ outcome' = [op |-> "set", inst |-> inst,
                          result |-> IF r.escaped THEN "escaped" ELSE "running",
                          errors |-> <<>>]
    /\ data' = <<<<name, value>>>>
    /\ pos' = 1
    /\ remaining' = {}
    /\ UNCHANGED <<classvars, out, insts, fields, ignore_extra, initialized, current_schema,
                   current_field_key, current_context, entry>>

\* `if errs and old_value is not MISSING: values[name] = old_value`
Restore(fv, name, errs, old_value) ==
    IF errs # <<>> /\ old_value # MISSING
    THEN [fv EXCEPT ![name] = old_value]
    ELSE fv

\* the end of Field.__set__: the old value is put back, and the aggregate
\* is raised if there are errors
SetEnd ==
    /\ pc = "validators"
    /\ op.kind = "set"
    /\ validators = <<>>
    /\ field_values' = SetFieldValues(field_values, op.inst,
                           Restore(field_values[op.inst], op.field, errors, op.old_value))
    /\ outcome' = IF errors # <<>>
                  THEN [outcome EXCEPT !.result = "raised", !.errors = _flatten_errors(errors)]
                  ELSE [outcome EXCEPT !.result = "returned"]
    /\ pc' = "done"
    /\ UNCHANGED <<classvars, out, insts, fields, ignore_extra, initialized, op, data, pos, remaining,
                   validators, errors, calls, current_schema, current_field_key, current_context,
                   entry>>

\* the call is over: its locals are gone, and an instance whose
\* construction did not return is unreachable
CallReturns ==
    /\ pc = "done"
    /\ pc' = "idle"
    /\ field_values' = IF initialized[op.inst] THEN field_values
                       ELSE [field_values EXCEPT ![op.inst] = NoValues]
    /\ op' = Idle
    /\ data' = <<>>
    /\ pos' = 1
    /\ remaining' = {}
    /\ validators' = <<>>
    /\ errors' = <<>>
    /\ calls' = <<>>
    /\ outcome' = NoOutcome
    /\ out' = <<>>
    /\ entry' = Ambient
    /\ UNCHANGED <<classvars, insts, fields, ignore_extra, initialized, current_schema,
                   current_field_key, current_context>>

(***************************************************************************)
(* Dump: Schema.dump                                                       *)
(***************************************************************************)
\* the ways the value_dump of a user field can end: it returns the value,
\* or raises FieldError, ValueError or AssertionError
DumpOutcomes == {"ok", "field_error", "value_error", "assertion_error"}

\* Integer.value_dump: the value as it is stored
Integer_value_dump(value) == Ok(value)

\* the mapping that dump() of an instance of the nested schema type returns
MappingOf(o) == IF o = "o11" THEN "m11" ELSE "m12"

\* Object.value_dump: `return value.dump()`; a stored None has no dump
Object_value_dump(value) ==
    IF value \in NestedInstances
    THEN Ok(MappingOf(value))
    ELSE Raise("AttributeError", "", "'NoneType' object has no attribute 'dump'")

\* the value_dump of a user field (tests/test_schema_props.py)
Custom_value_dump(value, how) ==
    CASE how = "ok"              -> Ok(value)
      [] how = "field_error"     -> Raise("FieldError", "custom", "dump field error")
      [] how = "value_error"     -> Raise("ValueError", "", "dump value error")
      [] how = "assertion_error" -> Raise("AssertionError", "", "")

value_dump(field, value, how) ==
    IF field.kind = "Integer"
    THEN Integer_value_dump(value)
    ELSE IF field.kind = "Object"
    THEN Object_value_dump(value)
    ELSE Custom_value_dump(value, how)

\* the `include` and `exclude` arguments of dump: MISSING or a sequence of
\* names
NotGiven == [given |-> FALSE, names |-> {}]
Given(names) == [given |-> TRUE, names |-> names]
Selections == {NotGiven} \cup {Given(S) : S \in SUBSET Names}

\* the set `fields` of dump after the two filters
Selected(include, exclude) ==
    LET all == Names
        inc == IF include.given THEN all \cap include.names ELSE all
    IN  IF exclude.given THEN inc \ exclude.names ELSE inc

\* the orders in which `for name in fields` may visit a set
Orders(S) ==
    {o \in [1..Cardinality(S) -> S] : \A m, n \in DOMAIN o : m # n => o[m] # o[n]}

\* the loop of dump ended by the first error it meets
DumpAll_fail_fast(fv, order, hows) ==
    LET Step[m \in 0..Len(order)] ==
            IF m = 0
            THEN [out |-> <<>>, errors |-> <<>>, calls |-> <<>>, escaped |-> FALSE]
            ELSE LET prev  == Step[m - 1]
                     name  == order[m]
                     value == fv[name]
                     r     == value_dump(fields[name], value, hows[name])
                     c     == Call("value_dump", name, value, FALSE, 0, r.exc)
                 IN  IF prev.escaped \/ prev.errors # <<>> \/ value = MISSING THEN prev
                     ELSE IF r.ok
                     THEN [prev EXCEPT !.out = Append(@, <<name, r.value>>),
                                       !.calls = Append(@, c)]
                     ELSE IF r.exc \in {"ValueError", "AssertionError", "FieldError"}
                     THEN [prev EXCEPT !.errors = @ \o Attach(<<LoadError(name, r)>>,
                                                             ValueContext(name, value)),
                                       !.calls = Append(@, c)]
                     ELSE [prev EXCEPT !.escaped = TRUE, !.calls = Append(@, c)]
    IN  Step[Len(order)]

\* the loop `for name in fields` of dump over the names in the given order:
\* a name without a stored value is skipped; the value returned by
\* value_dump is put in `out` under the name; a FieldError, ValueError or
\* AssertionError is appended to `errors`; any other exception leaves dump.
\* The field key and the DumpContext of the name are set around value_dump
\* and reset in its `finally`
DumpAll(fv, order, hows) ==
    LET Step[m \in 0..Len(order)] ==
            IF m = 0
            THEN [out |-> <<>>, errors |-> <<>>, calls |-> <<>>, escaped |-> FALSE]
            ELSE LET prev  == Step[m - 1]
                     name  == order[m]
                     value == fv[name]
                     r     == value_dump(fields[name], value, hows[name])
                     c     == Call("value_dump", name, value, FALSE, 0, r.exc)
                 IN  IF prev.escaped \/ value = MISSING THEN prev
                     ELSE IF r.ok
                     THEN [prev EXCEPT !.out = Append(@, <<name, r.value>>),
                                       !.calls = Append(@, c)]
                     ELSE IF r.exc \in {"ValueError", "AssertionError", "FieldError"}
                     THEN [prev EXCEPT !.errors = @ \o Attach(<<LoadError(name, r)>>,
                                                             ValueContext(name, value)),
                                       !.calls = Append(@, c)]
                     ELSE [prev EXCEPT !.escaped = TRUE, !.calls = Append(@, c)]
    IN  Step[Len(order)]

\* Schema.dump(include=..., exclude=...) on an instance that a load has
\* returned; `remaining` holds its local set `fields`.  After the check of
\* the parameters `current_schema.set(self)` is called, and its token is
\* dropped
Dump(inst, include, exclude, hows) ==
    /\ pc = "idle"
    /\ inst \in insts
    /\ initialized[inst]
    /\ IF include.given /\ exclude.given
       THEN /\ remaining' = Names
            /\ errors' = <<>>
            /\ calls' = <<>>
            /\ out' = <<>>
            /\ outcome' = [op |-> "dump", inst |-> inst, result |-> "type_error",
                           errors |-> <<>>]
            /\ UNCHANGED current_schema
       ELSE \E order \in Orders(Selected(include, exclude)) :
               LET r == DumpAll(field_values[inst], order, hows)
               IN  /\ remaining' = Selected(include, exclude)
                   /\ errors' = r.errors
                   /\ calls' = r.calls
                   /\ out' = r.out
                   /\ outcome' = [op |-> "dump", inst |-> inst,
                                  result |-> IF r.escaped THEN "escaped"
                                             ELSE IF r.errors # <<>> THEN "raised"
                                             ELSE "returned",
                                  errors |-> _flatten_errors(r.errors)]
                   /\ current_schema' = inst
    /\ pc' = "done"
    /\ op' = [Idle EXCEPT !.kind = "dump", !.inst = inst]
    /\ entry' = Ambient
    /\ UNCHANGED <<classvars, insts, fields, ignore_extra, field_values, initialized, data, pos,
                   validators, current_field_key, current_context>>

(***************************************************************************)
(* Specification                                                           *)
(***************************************************************************)
\* the configurations of field "a": built by the constructor, or copied
\* from such a field with the default overridden
Defaults == {"i7", "producer"}
AValidators == [n \in 1..NumValidators |-> Validator(n, FALSE)]
RawValidators == <<Validator(0, TRUE)>>
Constructed ==
    {Field__init__("Integer", m, n, d, s, RawValidators, AValidators) :
        m \in BOOLEAN, n \in BOOLEAN, d \in {MISSING} \cup Defaults, s \in BOOLEAN}
AFields ==
    Constructed \cup {copy(f, [default |-> d]) : f \in Constructed, d \in Defaults}
\* field "b": a required user field without validators
BField == Field__init__("Custom", FALSE, FALSE, MISSING, TRUE, <<>>, <<>>)
PlainA == Field__init__("Integer", FALSE, FALSE, MISSING, TRUE, RawValidators, AValidators)
\* field "a" of tests/test_validators.py: a lenient Integer with a raw and a
\* normal validator, both schema methods decorated with validate.field
DecoratedA ==
    RegisterMember(
        RegisterMember(Field__init__("Integer", FALSE, FALSE, MISSING, FALSE, <<>>, <<>>),
                       Validator(0, TRUE)),
        Validator(1, FALSE))
\* field "a" strict on one side only, without validators
MixedA ==
    {WithStrict(Field__init__("Integer", FALSE, FALSE, MISSING, TRUE, <<>>, <<>>), sl, ~sl) :
        sl \in BOOLEAN}

\* the schema types of a program: P and Q derive from Schema, C and D from
\* P; the Field objects it creates are numbered in creation order
Types == {"P", "C", "D", "Q"}
FieldObjects == 1..MaxObjects

\* a Field object bound to no schema, as Field.__init__ leaves it
Unbound == [_name |-> MISSING, _schema |-> MISSING]
NoStatement == [type |-> "none", members |-> <<>>, raised |-> FALSE]

\* before any class statement has run: no type, no registry dict, and one
\* Field object built by its constructor, with two empty lists of its own
ClassStart ==
    /\ type_fields = [t \in Types |-> "undefined"]
    /\ dicts = [t \in Types |-> {}]
    /\ bindings = (1 :> Unbound)
    /\ defining = NoStatement
    /\ lists = <<<<>>, <<>>>>
    /\ field_lists = (1 :> [_raw_validators |-> 1, _validators |-> 2])
    /\ config = "unset"
    /\ validation_fail_exception = "ValidationError"
    /\ configuring = [op |-> "none", value |-> "unset", raised |-> FALSE]

\* no value has been given to a TypeValidator
NoValue == [tuple |-> FALSE, items |-> <<>>]
NotValidated == [validated |-> FALSE, errors |-> <<>>, done |-> FALSE]
TypeStart ==
    /\ type_expr = <<>>
    /\ checked = NoValue
    /\ validation = NotValidated

\* no call has been made: no instance holds a value, no context variable
\* is set
CallStart ==
    /\ out = <<>>
    /\ current_schema = "unset"
    /\ current_field_key = "unset"
    /\ current_context = NoContext
    /\ entry = NoAmbient
    /\ field_values = [i \in Insts |-> NoValues]
    /\ initialized = [i \in Insts |-> FALSE]
    /\ pc = "idle"
    /\ op = Idle
    /\ data = <<>>
    /\ pos = 1
    /\ remaining = {}
    /\ validators = <<>>
    /\ errors = <<>>
    /\ calls = <<>>
    /\ outcome = NoOutcome

Start ==
    /\ ClassStart
    /\ TypeStart
    /\ CallStart

\* one instance of a schema type whose field "a" has any configuration
Init ==
    /\ insts = {"A"}
    /\ \/ fields \in {[a |-> fa, b |-> BField] : fa \in AFields} /\ ignore_extra = FALSE
       \/ fields = [a |-> PlainA, b |-> BField] /\ ignore_extra = TRUE
       \/ fields = [a |-> DecoratedA, b |-> BField] /\ ignore_extra = FALSE
       \/ fields \in {[a |-> fa, b |-> BField] : fa \in MixedA} /\ ignore_extra = FALSE
    /\ Start

Next ==
    \/ \E inst \in Insts, d \in DataSets : LoadBegin(inst, d)
    \/ LoadPair
    \/ LoadMissing
    \/ RunValidators
    \/ LoadEnd
    \/ \E inst \in Insts, name \in Names, value \in SetValues : SetBegin(inst, name, value)
    \/ SetEnd
    \/ CallReturns

Spec == Init /\ [][Next]_vars

\* two instances of a schema type with one of two configurations of "a"
OptionalA == Field__init__("Integer", TRUE, TRUE, MISSING, FALSE, RawValidators, AValidators)
InitTwo ==
    /\ insts = Insts
    /\ fields \in {[a |-> fa, b |-> BField] : fa \in {PlainA, OptionalA}}
    /\ ignore_extra = FALSE
    /\ Start

SpecTwo == InitTwo /\ [][Next]_vars

\* a schema type whose instances are loaded and dumped.  Field "a" is an
\* Integer without validators: required, optional and nullable with or
\* without a default, or declared with the external key 'Id', or a user
\* field; field "b" is a user field
ExternalKey == "Id"
BareA == Field__init__("Integer", FALSE, FALSE, MISSING, TRUE, <<>>, <<>>)
DumpAFields ==
    {BareA,
     Field__init__("Integer", TRUE, TRUE, "i7", TRUE, <<>>, <<>>),
     Field__init__("Integer", TRUE, TRUE, MISSING, TRUE, <<>>, <<>>),
     WithKeys(BareA, ExternalKey, ExternalKey),
     BField}
DumpDataSets ==
    {d \in UNION {[1..n -> (Names \cup {ExternalKey}) \X RawValues] : n \in 0..MaxData} :
        /\ \A m, n \in DOMAIN d : m # n => d[m][1] # d[n][1]
        /\ \A n \in DOMAIN d : d[n][1] = ExternalKey => d[n][2] = "i1"}

InitDump ==
    /\ insts = {"A"}
    /\ fields \in {[a |-> fa, b |-> BField] : fa \in DumpAFields}
    /\ ignore_extra = FALSE
    /\ Start

NextDump ==
    \/ \E inst \in Insts, d \in DumpDataSets : LoadBegin(inst, d)
    \/ LoadPair
    \/ LoadMissing
    \/ RunValidators
    \/ LoadEnd
    \/ \E inst \in Insts, include \in Selections, exclude \in Selections,
          hows \in [Names -> DumpOutcomes] : Dump(inst, include, exclude, hows)
    \/ CallReturns

SpecDump == InitDump /\ [][NextDump]_vars

(***************************************************************************)
(* Properties                                                              *)
(***************************************************************************)
\* the keys of the mapping given to the running load
DataKeys == {data[n][1] : n \in DOMAIN data}
\* the positions of `errors` holding an error of the given key and code
ErrorsOf(key, code) ==
    {m \in DOMAIN errors : errors[m].key = key /\ errors[m].code = code}
\* the positions of `calls` holding a call of the given function for a field
CallsOf(fn, name) ==
    {m \in DOMAIN calls : calls[m].fn = fn /\ calls[m].field = name}
\* a validator call that ended in one of the documented ways of failing
Failed(c) == c.fn = "validator" /\ c.out \in {"field_error", "value_error"}

\* C1: a load ends in exactly one of two ways: no error was accumulated,
\* the constructor returns and the instance is initialized; or at least one
\* error was accumulated, the aggregate is raised and the instance is never
\* initialized.  The instance is not initialized before the load has ended.
C1_TwoOutcomes ==
    op.kind = "load" =>
        /\ pc \in {"keys", "validators"} => ~initialized[op.inst]
        /\ pc = "done" =>
              \/ /\ outcome.result = "returned"
                 /\ errors = <<>>
                 /\ initialized[op.inst]
              \/ /\ outcome.result = "raised"
                 /\ errors # <<>>
                 /\ outcome.errors = errors
                 /\ ~initialized[op.inst]

\* the pair at position m of data is invalid: an unknown key that is not
\* ignored, a None for a field that is not nullable, a value that the field
\* does not coerce
PairInvalid(m) ==
    LET k == data[m][1]
        v == data[m][2]
    IN  IF k \notin Names THEN ~ignore_extra
        ELSE IF v = None THEN ~fields[k].none
        ELSE ~value_load(fields[k], v).ok

\* the keys of the running load that are invalid: by their pair, by being
\* required and absent, or by a validator that failed
InvalidKeys ==
    {data[m][1] : m \in {n \in DOMAIN data : PairInvalid(n)}}
    \cup {k \in Names \ DataKeys : required(fields[k])}
    \cup {calls[m].field : m \in {n \in DOMAIN calls : Failed(calls[n])}}

\* C2: a load never stops at the first problem: when the input has invalid
\* keys the aggregate is raised, and its raw mapping has exactly the invalid
\* keys, each with at least one message.
C2_Accumulates ==
    (op.kind = "load" /\ pc = "done") =>
        IF InvalidKeys = {}
        THEN outcome.result = "returned"
        ELSE /\ outcome.result = "raised"
             /\ DOMAIN Raw(outcome.errors) = InvalidKeys
             /\ \A k \in InvalidKeys : Raw(outcome.errors)[k] # <<>>

\* C3: an assignment that raises the aggregate leaves the instance with the
\* values it had before the assignment.
C3_FailedAssignmentRestores ==
    (op.kind = "set" /\ pc = "done" /\ outcome.result = "raised") =>
        field_values[op.inst] = op.before

\* C4: a load or an assignment on one instance never changes a value read
\* from another instance of the same schema type.
C4_InstancesIndependent ==
    [][\A i \in Insts, n \in Names :
          i # (IF pc = "idle" THEN op'.inst ELSE op.inst)
              => __get__(i, n)' = __get__(i, n)]_vars

\* two initialized instances with different values, the second of which an
\* assignment has just changed
C4_Witness ==
    /\ pc = "done"
    /\ op.kind = "set"
    /\ op.inst = "B"
    /\ outcome.result = "returned"
    /\ initialized["A"]
    /\ field_values["B"] # op.before
    /\ field_values["A"] # field_values["B"]

\* C5: a None given for a declared field never reaches value_load or a
\* normal validator; a nullable field stores None, any other field stores
\* nothing and gets exactly one none-disallowed error under its name.
C5_NoneHandling ==
    (op.kind = "load" /\ pc # "idle") =>
        \A n \in 1..(pos - 1) :
            LET k == data[n][1]
            IN  (k \in Names /\ data[n][2] = None) =>
                    /\ CallsOf("value_load", k) = {}
                    /\ \A m \in CallsOf("validator", k) : calls[m].raw
                    /\ IF fields[k].none
                       THEN /\ field_values[op.inst][k] = None
                            /\ ErrorsOf(k, "none_disallowed") = {}
                       ELSE /\ field_values[op.inst][k] = MISSING
                            /\ Cardinality(ErrorsOf(k, "none_disallowed")) = 1

\* a finished load that was given None for the nullable "a" and for "b"
C5_Witness ==
    /\ op.kind = "load"
    /\ pc = "done"
    /\ fields["a"].none
    /\ data = <<<<"b", None>>, <<"a", None>>>>
    /\ field_values[op.inst]["a"] = None
    /\ ErrorsOf("b", "none_disallowed") # {}

\* C6: a required field absent from the input gets exactly one required
\* error under its name, stores nothing, and the load does not return; a
\* field present in the input never gets the required error.
C6_RequiredMissing ==
    (op.kind = "load" /\ pc \in {"validators", "done"}) =>
        \A k \in Names :
            /\ (k \notin DataKeys /\ required(fields[k])) =>
                   /\ Cardinality(ErrorsOf(k, "required")) = 1
                   /\ field_values[op.inst][k] = MISSING
                   /\ outcome.result # "returned"
            /\ k \in DataKeys => ErrorsOf(k, "required") = {}

\* C7: a field with a default that is absent from the input ends the load
\* holding the resolved default and gets no required error; a producer is
\* called exactly once, after every input key has been examined, and never
\* in a load whose input supplies the field.
C7_DefaultApplied ==
    (op.kind = "load" /\ pc # "idle") =>
        \A k \in Names :
            fields[k].default # MISSING =>
                IF k \in DataKeys \/ pc = "keys"
                THEN CallsOf("default", k) = {}
                ELSE /\ field_values[op.inst][k] = ResolveDefault(fields[k].default)
                     /\ ErrorsOf(k, "required") = {}
                     /\ Cardinality(CallsOf("default", k)) =
                            (IF callable(fields[k].default) THEN 1 ELSE 0)
                     /\ \A m \in CallsOf("default", k), n \in DOMAIN calls :
                            calls[n].fn = "value_load" => n < m

\* C8: an input key that matches no declared field is never stored; with
\* ignore_extra it is dropped without an error, otherwise it gets exactly
\* one unknown-field error under the raw key.
C8_IgnoreExtra ==
    (op.kind = "load" /\ pc # "idle") =>
        \A n \in 1..(pos - 1) :
            LET k == data[n][1]
            IN  k \notin Names =>
                    /\ k \notin DOMAIN field_values[op.inst]
                    /\ Cardinality(ErrorsOf(k, "unknown_field")) =
                           (IF ignore_extra THEN 0 ELSE 1)

\* the failed calls of the raw validators of a field that added an error
RawFailures(k) ==
    {m \in CallsOf("validator", k) : calls[m].raw /\ calls[m].out \in {"none", "field_error"}}

\* C9: a non-None value that value_load rejects gives its field exactly one
\* error, the FieldError raised or the wrapped standard error; nothing is
\* stored for the field and none of its normal validators is called.
C9_CoercionFailure ==
    (op.kind = "load" /\ pc # "idle") =>
        \A n \in 1..(pos - 1) :
            LET k == data[n][1]
                v == data[n][2]
            IN  (k \in Names /\ v # None /\ ~value_load(fields[k], v).ok) =>
                    LET mine == SelectSeq(errors, LAMBDA e : e.key = k)
                    IN  /\ field_values[op.inst][k] = MISSING
                        /\ \A m \in CallsOf("validator", k) : calls[m].raw
                        /\ mine # <<>>
                        /\ [mine[1] EXCEPT !.context = NoContext] =
                               LoadError(k, value_load(fields[k], v))
                        /\ pc = "keys" => Len(mine) = 1
                        /\ outcome.result # "escaped" =>
                               Len(mine) = 1 + Cardinality(RawFailures(k))

\* a finished load in which value_load rejected the values of both fields,
\* one with a FieldError and one with a standard error
C9_Witness ==
    /\ op.kind = "load"
    /\ pc = "done"
    /\ outcome.result = "raised"
    /\ data = <<<<"a", "sx">>, <<"b", "sx">>>>
    /\ CallsOf("validator", "a") # {}
    /\ Len(errors) >= 2

\* C10: every validator of a list that is run is called, in registration
\* order, whatever the validators before it did: a call of a validator that
\* is not the last of its list is followed by the call of the next one.
C10_AllValidatorsRun ==
    \A n \in DOMAIN calls :
        (/\ calls[n].fn = "validator"
         /\ calls[n].idx < Len(ValidatorList(calls[n].field, calls[n].raw))) =>
            /\ n < Len(calls)
            /\ calls[n + 1].fn = "validator"
            /\ calls[n + 1].field = calls[n].field
            /\ calls[n + 1].raw = calls[n].raw
            /\ calls[n + 1].idx = calls[n].idx + 1

\* the errors under a key that come from validators of the field: raised by
\* a validator, or made for one that failed
ValidatorErrorsOf(k) == ErrorsOf(k, "validator_error") \cup ErrorsOf(k, "validation_failed")

\* C11: a validator fails exactly when it raises ValueError, AssertionError
\* or FieldError, and each failure becomes one FieldError of the aggregate;
\* a validator that returns, whatever it returns, adds no error.
C11_ValidatorFailure ==
    (op.kind = "load" /\ pc = "done") =>
        /\ outcome.result # "escaped"
        /\ \A k \in Names :
              fields[k].kind = "Integer" =>
                  Cardinality(ValidatorErrorsOf(k)) =
                      Cardinality({m \in CallsOf("validator", k) : Failed(calls[m])})

\* the value given for a field to the running call, and the value its
\* coercion returns
InputOf(k) == (CHOOSE n \in DOMAIN data : data[n][1] = k)
CoercedOf(k) ==
    LET v == data[InputOf(k)][2]
    IN  IF op.kind = "load" THEN value_load(fields[k], v).value
        ELSE value_set(fields[k], v).value

\* C12: a validator declared raw is always called with the input value as
\* given, a validator declared normal with the value the coercion returned;
\* the flag given at registration decides the list the validator is run from.
C12_RawFlag ==
    \A n \in DOMAIN calls :
        calls[n].fn = "validator" =>
            LET c == calls[n]
                v == ValidatorList(c.field, c.raw)[c.idx]
            IN  /\ v.raw = c.raw
                /\ c.value = IF v.raw THEN data[InputOf(c.field)][2] ELSE CoercedOf(c.field)

\* what a primitive field makes of a value that is not None, in the strict
\* or the lenient mode: the value stored and the code of the error
Expected(v, strict) ==
    IF v \in Ints THEN [value |-> v, code |-> ""]
    ELSE IF strict THEN [value |-> MISSING, code |-> "invalid_datatype"]
    ELSE IF IntConvertible(v) THEN [value |-> IntOf(v), code |-> ""]
    ELSE [value |-> MISSING, code |-> "nonconvertible"]

\* the errors under a key are those of the expected outcome: one error of
\* the expected code, none of the other
CoercionErrorsAre(k, code) ==
    /\ Cardinality(ErrorsOf(k, "invalid_datatype")) = (IF code = "invalid_datatype" THEN 1 ELSE 0)
    /\ Cardinality(ErrorsOf(k, "nonconvertible")) = (IF code = "nonconvertible" THEN 1 ELSE 0)

\* C14: a primitive field given a value not of its type fails with the
\* invalid-datatype error in strict mode, and in lenient mode converts or
\* fails with the non-convertible error; a value of its type is stored
\* unchanged; strict_load alone decides on load, strict_set on assignment.
C14_Strictness ==
    /\ (op.kind = "load" /\ pc # "idle") =>
          \A n \in 1..(pos - 1) :
              LET k == data[n][1]
                  v == data[n][2]
              IN  (k \in Names /\ v # None /\ fields[k].kind = "Integer") =>
                      LET e == Expected(v, fields[k].strict_load)
                      IN  /\ field_values[op.inst][k] = e.value
                          /\ CoercionErrorsAre(k, e.code)
    /\ (op.kind = "set" /\ pc # "idle") =>
          LET k == op.field
              v == data[1][2]
          IN  (v # None /\ fields[k].kind = "Integer") =>
                  LET e == Expected(v, fields[k].strict_set)
                  IN  /\ CoercionErrorsAre(k, e.code)
                      /\ e.code # "" => field_values[op.inst] = op.before
                      /\ (e.code = "" /\ pc = "validators") =>
                             field_values[op.inst][k] = e.value
                      /\ outcome.result = "returned" =>
                             field_values[op.inst][k] = e.value

\* an assignment of '1' that the field, strict on load and lenient on
\* assignment, has converted and stored
C14_Witness ==
    /\ pc = "done"
    /\ op.kind = "set"
    /\ outcome.result = "returned"
    /\ fields["a"].strict_load
    /\ ~fields["a"].strict_set
    /\ data = <<<<"a", "s1">>>>
    /\ op.before["a"] # "i1"
    /\ field_values[op.inst]["a"] = "i1"

(***************************************************************************)
(* Nested specification: field "b" is an Object field                      *)
(***************************************************************************)
ObjectB == Field__init__("Object", FALSE, FALSE, MISSING, TRUE, <<>>, <<>>)
NullableObjectB == Field__init__("Object", FALSE, TRUE, MISSING, TRUE, <<>>, <<>>)

\* the input mappings of a schema with an Object field
NestedDataSets ==
    {d \in UNION {[1..n -> Keys \X ({None, "i1", "sx"} \cup Mappings)] : n \in 0..MaxData} :
        /\ \A m, n \in DOMAIN d : m # n => d[m][1] # d[n][1]
        /\ \A n \in DOMAIN d :
              /\ d[n][1] = ExtraKey => d[n][2] = "i1"
              /\ d[n][1] = "a" => d[n][2] \in {"i1", "sx"}
              /\ d[n][1] = "b" => d[n][2] \in {None} \cup Mappings}
NestedSetValues == {"i2", "m12", "m1_", "o11"}

InitNested ==
    /\ insts = {"A"}
    /\ fields \in {[a |-> PlainA, b |-> fb] : fb \in {ObjectB, NullableObjectB}}
    /\ ignore_extra = FALSE
    /\ Start

NextNested ==
    \/ \E inst \in Insts, d \in NestedDataSets : LoadBegin(inst, d)
    \/ LoadPair
    \/ LoadMissing
    \/ RunValidators
    \/ LoadEnd
    \/ \E inst \in Insts, name \in Names, value \in NestedSetValues : SetBegin(inst, name, value)
    \/ SetEnd
    \/ CallReturns

SpecNested == InitNested /\ [][NextNested]_vars

\* the raw() of the aggregate that loading a mapping into the nested schema
\* type raises
ExpectedNestedRaw(m) ==
    CASE m = "m1_" -> [rating |-> <<"This field is required.">>]
      [] m = "m1x" -> [rating |-> <<"Value for this field must be of integer data type.">>]
      [] m = "m__" -> [id |-> <<"This field is required.">>,
                       rating |-> <<"This field is required.">>]
FailingMappings == {"m1_", "m1x", "m__"}

\* C13: a nested load that fails gives the parent exactly one error, under
\* the key of the Object field, whose message is the raw() of the nested
\* aggregate; no key of the nested schema is a key of the parent's errors.
C13_NestedWrapped ==
    (op.kind = "load" /\ pc # "idle") =>
        /\ \A m \in DOMAIN errors : errors[m].key \notin NestedNames
        /\ \A n \in 1..(pos - 1) :
              LET k == data[n][1]
                  v == data[n][2]
              IN  (k \in Names /\ fields[k].kind = "Object" /\ v \in FailingMappings) =>
                      LET mine == SelectSeq(errors, LAMBDA e : e.key = k)
                      IN  /\ Len(mine) = 1
                          /\ mine[1].message = ExpectedNestedRaw(v)
                          /\ field_values[op.inst][k] = MISSING
                          /\ (pc = "done" /\ outcome.result = "raised") =>
                                 Raw(outcome.errors)[k] = <<ExpectedNestedRaw(v)>>

\* a load that has failed on its own field "a" and, twice, inside the
\* mapping given for the Object field
C13_Witness ==
    /\ op.kind = "load"
    /\ pc = "done"
    /\ outcome.result = "raised"
    /\ data = <<<<"a", "sx">>, <<"b", "m__">>>>
    /\ DOMAIN Raw(outcome.errors) = {"a", "b"}

(***************************************************************************)
(* Properties of dump                                                      *)
(***************************************************************************)
\* the included fields of the running dump that hold a value
Held == {k \in remaining : field_values[op.inst][k] # MISSING}
\* the positions of `calls` holding a value_dump call that raised one of
\* the three errors dump catches
DumpFailures(k) ==
    {m \in CallsOf("value_dump", k) :
        calls[m].out \in {"FieldError", "ValueError", "AssertionError"}}
\* the names under which `out` has an item
OutKeys == {out[n][1] : n \in DOMAIN out}

\* C15: dump is not fail-fast and returns no partial output.  When a dump
\* has ended, value_dump has been called once for every included field that
\* holds a value, whatever happened to the fields before it; each call that
\* raised FieldError, ValueError or AssertionError has left one error under
\* the field's name and each other call one item of the output; with an
\* error the aggregate carrying all the errors is raised instead of a
\* mapping being returned, without one the mapping of all these fields is
\* returned.
C15_DumpNotFailFast ==
    (op.kind = "dump" /\ pc = "done" /\ outcome.result # "type_error") =>
        /\ \A k \in Names :
              /\ Cardinality(CallsOf("value_dump", k)) = IF k \in Held THEN 1 ELSE 0
              /\ Len(SelectSeq(errors, LAMBDA e : e.key = k)) = Cardinality(DumpFailures(k))
              /\ k \in OutKeys <=> (k \in Held /\ DumpFailures(k) = {})
        /\ IF errors # <<>>
           THEN outcome.result = "raised" /\ outcome.errors = errors
           ELSE outcome.result = "returned" /\ OutKeys = Held

\* a dump whose first field failed with ValueError and whose second field
\* was dumped all the same, ended by the aggregate
C15_Witness ==
    /\ op.kind = "dump"
    /\ pc = "done"
    /\ Len(calls) = 2
    /\ calls[1].out = "ValueError"
    /\ calls[2].out = ""
    /\ Len(out) = 1
    /\ Len(errors) = 1
    /\ errors[1].message = "dump value error"
    /\ outcome.result = "raised"

\* C16: in a dump, an included field that has a default and holds no value
\* is emitted with its default, and value_dump is never called with the
\* default of a field (no input value is equal to a default).
C16_DefaultNotDumped ==
    (op.kind = "dump" /\ pc = "done" /\ outcome.result # "type_error") =>
        \A k \in remaining :
            fields[k].default # MISSING =>
                /\ \A m \in CallsOf("value_dump", k) :
                      calls[m].value # ResolveDefault(fields[k].default)
                /\ k \notin Held =>
                      <<k, ResolveDefault(fields[k].default)>> \in {out[n] : n \in DOMAIN out}

\* the external key of a field on load and on dump: the name by default
LoadKeyOf(k) == IF fields[k].load_key = None THEN k ELSE fields[k].load_key
DumpKeyOf(k) == IF fields[k].dump_key = None THEN k ELSE fields[k].dump_key

\* C17: a field declared with an external key K other than its name is
\* addressed by K in raw data.  When a load has ended, an input key K has
\* not been rejected as unknown and its coerced value is stored for the
\* field, and an input key equal to the field's name has been rejected as
\* unknown; when a dump has ended, the field's value is in the output under
\* K and nothing is under the field's name.
C17_ExternalKey ==
    \A k \in Names :
        /\ (op.kind = "load" /\ pc = "done" /\ LoadKeyOf(k) # k) =>
              /\ k \in DataKeys => ErrorsOf(k, "unknown_field") # {}
              /\ \A n \in DOMAIN data :
                    data[n][1] = LoadKeyOf(k) =>
                        /\ ErrorsOf(LoadKeyOf(k), "unknown_field") = {}
                        /\ value_load(fields[k], data[n][2]).ok =>
                              field_values[op.inst][k] = value_load(fields[k], data[n][2]).value
        /\ (op.kind = "dump" /\ pc = "done" /\ outcome.result = "returned"
               /\ DumpKeyOf(k) # k /\ k \in Held) =>
              /\ k \notin OutKeys
              /\ <<DumpKeyOf(k), field_values[op.inst][k]>> \in {out[n] : n \in DOMAIN out}

(***************************************************************************)
(* Round trip: schemas whose fields coerce nothing                         *)
(***************************************************************************)
\* field "a" is a strict Integer, required or optional and nullable; field
\* "b" is an Object field, nullable or not; neither has validators
RoundAFields == {BareA, Field__init__("Integer", TRUE, TRUE, MISSING, TRUE, <<>>, <<>>)}
RoundDataSets ==
    {d \in UNION {[1..n -> Names \X ({None, "i1", "sx"} \cup Mappings)] : n \in 0..MaxData} :
        /\ \A m, n \in DOMAIN d : m # n => d[m][1] # d[n][1]
        /\ \A n \in DOMAIN d :
              /\ d[n][1] = "a" => d[n][2] \in {None, "i1", "sx"}
              /\ d[n][1] = "b" => d[n][2] \in {None, "m11", "m12", "m1_"}}

InitRound ==
    /\ insts = {"A"}
    /\ fields \in {[a |-> fa, b |-> fb] : fa \in RoundAFields, fb \in {ObjectB, NullableObjectB}}
    /\ ignore_extra = FALSE
    /\ Start

NextRound ==
    \/ \E inst \in Insts, d \in RoundDataSets : LoadBegin(inst, d)
    \/ LoadPair
    \/ LoadMissing
    \/ RunValidators
    \/ LoadEnd
    \/ \E inst \in Insts, include \in Selections, exclude \in Selections,
          hows \in [Names -> {"ok"}] : Dump(inst, include, exclude, hows)
    \/ CallReturns

SpecRound == InitRound /\ [][NextRound]_vars

\* _prepare_from_data on a new instance of a schema type whose fields have
\* no validators: the loop over the items of the mapping, then the pass
\* over the fields left
LoadAll(d) ==
    LET Pairs[n \in 0..Len(d)] ==
            IF n = 0 THEN [fv |-> NoValues, errors |-> <<>>, left |-> Names]
            ELSE LET prev == Pairs[n - 1]
                     name == d[n][1]
                 IN  IF name \notin prev.left
                     THEN [prev EXCEPT !.errors =
                              Append(@, FieldError(name, "unknown_field",
                                                   "Invalid or unknown field."))]
                     ELSE LET r == _process_field_value(prev.fv, <<>>, name, d[n][2])
                          IN  [fv     |-> r.fv,
                               errors |-> prev.errors \o r.errors,
                               left   |-> prev.left \ {name}]
        last == Pairs[Len(d)]
        m    == MissingPass(last.fv, last.left, Len(FieldOrder))
    IN  [fv |-> m.fv, errors |-> last.errors \o m.errors]

\* C18: round trip.  Every instance here was returned by a load and holds
\* what the load stored.  When dump() of such an instance has ended, it has
\* returned a mapping, and loading that mapping succeeds and stores the
\* same field values.
C18_RoundTrip ==
    (op.kind = "dump" /\ pc = "done" /\ outcome.result # "type_error"
        /\ remaining = Names) =>
        /\ outcome.result = "returned"
        /\ LoadAll(out).errors = <<>>
        /\ LoadAll(out).fv = field_values[op.inst]

(***************************************************************************)
(* Schema types: class statements and Field.copy                           *)
(***************************************************************************)
\* the attribute names of class bodies
AttrNames == {"p", "q"}
\* the base of each schema type
BaseOf(t) == IF t \in {"C", "D"} THEN "P" ELSE "Schema"

\* the class bodies: (name, Field object) members in order, with distinct
\* names
Bodies ==
    {ms \in UNION {[1..n -> AttrNames \X FieldObjects] : n \in 0..Cardinality(AttrNames)} :
        \A m, n \in DOMAIN ms : m # n => ms[m][1] # ms[n][1]}

\* Field._clear_state leaving the binding as it is
_clear_state_keep(binding) == binding

\* Field._clear_state: _schema and _name are reset to MISSING
_clear_state(binding) == Unbound

\* Field._bind(name, schema): a usage error for a Field object that is
\* bound already, else the object takes the name and the schema type
_bind(binding, name, schema) ==
    IF binding._schema # MISSING
    THEN [raised |-> TRUE, binding |-> binding]
    ELSE [raised |-> FALSE, binding |-> [_name |-> name, _schema |-> schema]]

\* `cls.__fields__[name] = member` on the items of a dict
SetItem(items, name, member) ==
    {i \in items : i[1] # name} \cup {<<name, member>>}

\* `hasattr(cls, '__fields__')`: Schema itself has no such attribute, a
\* type derived from a schema type finds the one of its base
hasattr__fields__(t) == BaseOf(t) # "Schema"

\* the loop of __init_subclass__ over the members of the class body, ended
\* by the first _bind that raises
ClassBody(t, items, bnd, members) ==
    LET Step[m \in 0..Len(members)] ==
            IF m = 0 THEN [items |-> items, bindings |-> bnd, raised |-> FALSE]
            ELSE LET prev == Step[m - 1]
                     name == members[m][1]
                     f    == members[m][2]
                     b    == _bind(prev.bindings[f], name, t)
                 IN  IF prev.raised THEN prev
                     ELSE IF b.raised THEN [prev EXCEPT !.raised = TRUE]
                     ELSE [items    |-> SetItem(prev.items, name, f),
                           bindings |-> [prev.bindings EXCEPT ![f] = b.binding],
                           raised   |-> FALSE]
    IN  Step[Len(members)]

\* the registry of a defined type: the dict its __fields__ attribute names
Registry(t) == dicts[type_fields[t]]
Defined(t) == type_fields[t] \in Types

\* `class t(base): <members>`: Schema.__init_subclass__(t).  The type gets
\* a dict of its own only if it finds no __fields__ attribute; a statement
\* that raises defines no type
DefineClass(t, members) ==
    /\ type_fields[t] = "undefined"
    /\ BaseOf(t) # "Schema" => Defined(BaseOf(t))
    /\ \A m \in DOMAIN members : members[m][2] \in DOMAIN bindings
    /\ LET d == IF hasattr__fields__(t) THEN type_fields[BaseOf(t)] ELSE t
           r == ClassBody(t, IF hasattr__fields__(t) THEN dicts[d] ELSE {}, bindings, members)
       IN  /\ dicts' = [dicts EXCEPT ![d] = r.items]
           /\ bindings' = r.bindings
           /\ type_fields' = [type_fields EXCEPT ![t] = IF r.raised THEN "failed" ELSE d]
           /\ defining' = [type |-> t, members |-> members, raised |-> r.raised]
    /\ UNCHANGED <<lists, field_lists, configvars, callvars, typevars>>

\* `list.clear()` on the list objects named by ids
Clear(heap, ids) == [n \in DOMAIN heap |-> IF n \in ids THEN <<>> ELSE heap[n]]

\* `g = f.copy(validators=...)`: a new Field object made by copy.copy, so
\* its attributes name the same objects as those of f; its state is
\* cleared, and without `validators` its two lists are cleared.  (The
\* overrides of the configuration are the operator `copy`.)
CopyField(f, with_validators) ==
    /\ f \in DOMAIN bindings
    /\ Cardinality(DOMAIN bindings) < MaxObjects
    /\ bindings' = bindings @@ ((Cardinality(DOMAIN bindings) + 1) :> _clear_state(bindings[f]))
    /\ field_lists' = field_lists @@ ((Cardinality(DOMAIN bindings) + 1) :> field_lists[f])
    /\ lists' = IF with_validators THEN lists
                ELSE Clear(lists, {field_lists[f]._validators, field_lists[f]._raw_validators})
    /\ UNCHANGED <<type_fields, dicts, defining, configvars, callvars, typevars>>

InitClasses ==
    /\ insts = {"A"}
    /\ fields = [a |-> PlainA, b |-> BField]
    /\ ignore_extra = FALSE
    /\ Start

NextClasses ==
    \/ \E t \in Types, members \in Bodies : DefineClass(t, members)
    \/ \E f \in FieldObjects, with_validators \in BOOLEAN : CopyField(f, with_validators)

SpecClasses == InitClasses /\ [][NextClasses]_vars

(***************************************************************************)
(* Properties of schema types                                              *)
(***************************************************************************)
\* the items inherited from the base that the body does not redefine, and
\* the items of the body
InheritedPlusOwn(base_items, members) ==
    {i \in base_items : \A m \in DOMAIN members : members[m][1] # i[1]}
        \cup {members[m] : m \in DOMAIN members}

\* C19: the registry of a schema type is fixed when the type is defined.
\* In every step, a type that becomes defined gets the items of its base's
\* registry plus those of its own body, and a type that is defined already
\* stays defined with the same items in its registry.
C19_RegistryFixed ==
    [][\A t \in Types :
          /\ (~Defined(t) /\ type_fields'[t] \in Types) =>
                dicts'[type_fields'[t]] =
                    InheritedPlusOwn(IF BaseOf(t) = "Schema" THEN {} ELSE Registry(BaseOf(t)),
                                     defining'.members)
          /\ Defined(t) =>
                /\ type_fields'[t] \in Types
                /\ dicts'[type_fields'[t]] = Registry(t)]_vars

\* C20: a Field object is bound to at most one schema type.  In every step,
\* a Field object that is bound keeps its name and its schema type, and a
\* new Field object (a copy) is unbound; a class statement raises exactly if
\* its body has a Field object that is bound already (to an earlier type or
\* earlier in the body), and then defines no type; otherwise it defines the
\* type and binds each Field object of its body to it under the member's
\* name.
C20_SingleOwner ==
    [][/\ \A f \in DOMAIN bindings :
             bindings[f]._schema # MISSING => bindings'[f] = bindings[f]
       /\ \A g \in (DOMAIN bindings') \ DOMAIN bindings : bindings'[g] = Unbound
       /\ \A t \in Types :
             (type_fields[t] = "undefined" /\ type_fields'[t] # "undefined") =>
                 LET ms == defining'.members
                     Reused(m) ==
                         \/ bindings[ms[m][2]]._schema # MISSING
                         \/ \E k \in 1..(m - 1) : ms[k][2] = ms[m][2]
                 IN  /\ defining'.type = t
                     /\ defining'.raised <=> \E m \in DOMAIN ms : Reused(m)
                     /\ defining'.raised => type_fields'[t] = "failed"
                     /\ ~defining'.raised =>
                           /\ type_fields'[t] \in Types
                           /\ \A m \in DOMAIN ms :
                                 bindings'[ms[m][2]] = [_name |-> ms[m][1], _schema |-> t]]_vars

\* the class statement of Q has raised for the Field object that P declared
\* first, which is still bound to P as "p", and a copy is bound to another
\* type
C20_Witness ==
    /\ defining = [type |-> "Q", members |-> <<<<"p", 1>>>>, raised |-> TRUE]
    /\ type_fields["Q"] = "failed"
    /\ bindings[1] = [_name |-> "p", _schema |-> "P"]
    /\ \E g \in DOMAIN bindings : g # 1 /\ bindings[g]._schema \in Types \ {"P"}

(***************************************************************************)
(* Validator lists of Field objects                                        *)
(***************************************************************************)
\* the callbacks registered as validators
Callbacks == 1..NumValidators

\* Field.__init__: a new Field object with two new empty lists
NewField ==
    /\ Cardinality(DOMAIN bindings) < MaxObjects
    /\ bindings' = bindings @@ ((Cardinality(DOMAIN bindings) + 1) :> Unbound)
    /\ lists' = lists \o <<<<>>, <<>>>>
    /\ field_lists' = field_lists @@
            ((Cardinality(DOMAIN bindings) + 1) :>
                [_raw_validators |-> Len(lists) + 1, _validators |-> Len(lists) + 2])
    /\ UNCHANGED <<type_fields, dicts, defining, configvars, callvars, typevars>>

\* Field.add_validator(callback, raw=raw) on a Field object: the callback
\* is appended to the list that the attribute names
AddValidator(f, callback, raw) ==
    /\ f \in DOMAIN field_lists
    /\ LET id == IF raw THEN field_lists[f]._raw_validators ELSE field_lists[f]._validators
       IN  /\ Len(lists[id]) < NumValidators
           /\ lists' = [lists EXCEPT ![id] = Append(@, callback)]
    /\ UNCHANGED <<type_fields, dicts, bindings, defining, field_lists, configvars, callvars, typevars>>

\* `list.remove(x)`: the first occurrence is taken out
ListRemove(l, x) ==
    LET first == CHOOSE n \in DOMAIN l : l[n] = x /\ \A m \in 1..(n - 1) : l[m] # x
    IN  [n \in 1..(Len(l) - 1) |-> IF n < first THEN l[n] ELSE l[n + 1]]
Contains(l, x) == \E n \in DOMAIN l : l[n] = x

\* Field.remove_validator(callback)
RemoveValidator(f, callback) ==
    /\ f \in DOMAIN field_lists
    /\ LET n  == field_lists[f]._validators
           r  == field_lists[f]._raw_validators
           l1 == IF Contains(lists[n], callback)
                 THEN [lists EXCEPT ![n] = ListRemove(@, callback)] ELSE lists
       IN  lists' = IF Contains(l1[r], callback)
                    THEN [l1 EXCEPT ![r] = ListRemove(@, callback)] ELSE l1
    /\ UNCHANGED <<type_fields, dicts, bindings, defining, field_lists, configvars, callvars, typevars>>

NextCopy ==
    \/ NewField
    \/ \E f \in FieldObjects, with_validators \in BOOLEAN : CopyField(f, with_validators)
    \/ \E f \in FieldObjects, callback \in Callbacks, raw \in BOOLEAN :
          AddValidator(f, callback, raw)
    \/ \E f \in FieldObjects, callback \in Callbacks : RemoveValidator(f, callback)

SpecCopy == InitClasses /\ [][NextCopy]_vars

\* the validators of a Field object: the contents of its two lists
ValidatorsOf(heap, f) ==
    [_raw_validators |-> heap[field_lists[f]._raw_validators],
     _validators     |-> heap[field_lists[f]._validators]]

\* C21: Field.copy returns an unbound, independent clone.  In every step,
\* a new Field object is unbound and its validator lists are empty or those
\* of a Field object that was there, every Field object that was there has
\* the validators it had unless it is the one whose add_validator or
\* remove_validator was called, and so at most one Field object has its
\* validators changed.
C21_CopyIndependent ==
    [][/\ \A g \in (DOMAIN bindings') \ DOMAIN bindings :
             /\ bindings'[g] = Unbound
             /\ \A f \in DOMAIN bindings : ValidatorsOf(lists', f) = ValidatorsOf(lists, f)
       /\ \A f, g \in DOMAIN bindings :
             (ValidatorsOf(lists', f) # ValidatorsOf(lists, f)
                 /\ ValidatorsOf(lists', g) # ValidatorsOf(lists, g)) => f = g]_vars

(***************************************************************************)
(* Configuration: the class of the aggregate error                         *)
(***************************************************************************)
\* the classes a program may hand to the configuration; the first three
\* are the base class of the aggregate error and two subclasses of it
ExceptionClasses ==
    {"ValidationError", "CustomValidationError", "OtherValidationError",
     "FieldError", "Exception", "int"}

\* issubclass(value, ValidationError)
issubclass(value) ==
    value \in {"ValidationError", "CustomValidationError", "OtherValidationError"}

\* _ConfigOption.__get__ for validation_error_cls: the stored value, or
\* the default
validation_error_cls(values) == IF values = "unset" THEN "ValidationError" ELSE values

\* `oblate.config.validation_error_cls = value`: _ConfigOption.__set__ with
\* the setter _set_validation_error_cls
SetOption(value) ==
    /\ IF issubclass(value)
       THEN config' = value
       ELSE UNCHANGED config
    /\ configuring' = [op |-> "assign", value |-> value, raised |-> ~issubclass(value)]
    /\ UNCHANGED <<validation_fail_exception, type_fields, dicts, bindings, defining, lists,
                   field_lists, callvars, typevars>>

\* `oblate.config = GlobalConfig(**options)`, with validation_error_cls
\* among the options or not: __init__ puts the options in _values
GlobalConfig__init__(option) ==
    /\ config' = option
    /\ configuring' = [op |-> "construct", value |-> option, raised |-> FALSE]
    /\ UNCHANGED <<validation_fail_exception, type_fields, dicts, bindings, defining, lists,
                   field_lists, callvars, typevars>>

\* config.set_validation_fail_exception(exc)
set_validation_fail_exception(exc) ==
    /\ IF issubclass(exc)
       THEN validation_fail_exception' = exc
       ELSE UNCHANGED validation_fail_exception
    /\ configuring' = [op |-> "set", value |-> exc, raised |-> ~issubclass(exc)]
    /\ UNCHANGED <<config, type_fields, dicts, bindings, defining, lists, field_lists, callvars, typevars>>

NextConfig ==
    \/ \E value \in ExceptionClasses : SetOption(value)
    \/ \E option \in ExceptionClasses \cup {"unset"} : GlobalConfig__init__(option)
    \/ \E exc \in ExceptionClasses : set_validation_fail_exception(exc)

SpecConfig == InitClasses /\ [][NextConfig]_vars

\* C22: the class used for aggregate errors is always a subclass of the
\* base ValidationError.  After every step the class that the global
\* configuration resolves to and the class of the module-level setting are
\* such subclasses, and a call that was given any other class has raised
\* and has left both as they were.
C22_ErrorClassIsSubclass ==
    [][/\ issubclass(validation_error_cls(config'))
       /\ issubclass(validation_fail_exception')
       /\ (configuring'.value # "unset" /\ ~issubclass(configuring'.value)) =>
             /\ configuring'.raised
             /\ config' = config
             /\ validation_fail_exception' = validation_fail_exception]_vars

(***************************************************************************)
(* Aggregates of errors with sequence messages                             *)
(***************************************************************************)
\* field "a" is a Dict[str, int] field, field "b" a user field
DictA == Field__init__("Dict", FALSE, FALSE, MISSING, TRUE, <<>>, <<>>)
ErrorDataSets ==
    {d \in UNION {[1..n -> Keys \X ({"i1", "sx", "e0"} \cup Dicts)] : n \in 0..MaxData} :
        /\ \A m, n \in DOMAIN d : m # n => d[m][1] # d[n][1]
        /\ \A n \in DOMAIN d :
              /\ d[n][1] = ExtraKey => d[n][2] = "i1"
              /\ d[n][1] = "a" => d[n][2] \in {"i1"} \cup Dicts
              /\ d[n][1] = "b" => d[n][2] \in {"i1", "sx", "e0"}}

InitErrors ==
    /\ insts = {"A"}
    /\ fields = [a |-> DictA, b |-> BField]
    /\ ignore_extra = FALSE
    /\ Start

NextErrors ==
    \/ \E inst \in Insts, d \in ErrorDataSets : LoadBegin(inst, d)
    \/ LoadPair
    \/ LoadMissing
    \/ RunValidators
    \/ LoadEnd
    \/ CallReturns

SpecErrors == InitErrors /\ [][NextErrors]_vars

\* the errors in the order in which they occurred, each error with a
\* sequence message replaced, where it stands, by one error per element
InOccurrenceOrder(errs) ==
    LET Step[n \in 0..Len(errs)] ==
            IF n = 0 THEN <<>>
            ELSE IF ~IsSequenceMessage(errs[n]) THEN Append(Step[n - 1], errs[n])
            ELSE Step[n - 1] \o
                 [m \in 1..Len(errs[n].message) |-> _copy_with(errs[n], errs[n].message[m])]
    IN  Step[Len(errs)]

\* C23: the errors of a raised aggregate are the errors of the call in the
\* order in which they occurred, those with a sequence message split where
\* they stand, and raw() has the keys in the order of their first
\* occurrence in that order.
C23_OccurrenceOrder ==
    (pc = "done" /\ outcome.result = "raised") =>
        /\ outcome.errors = InOccurrenceOrder(errors)
        /\ RawKeys(outcome.errors) = RawKeys(InOccurrenceOrder(errors))

\* the number of errors under a key that the errors collected stand for
Weight(errs, k) ==
    LET Step[n \in 0..Len(errs)] ==
            IF n = 0 THEN 0
            ELSE IF errs[n].key # k THEN Step[n - 1]
            ELSE IF IsSequenceMessage(errs[n]) THEN Step[n - 1] + Len(errs[n].message)
            ELSE Step[n - 1] + 1
    IN  Step[Len(errs)]

\* C30: a raised aggregate holds at least one error and its raw() at least
\* one key; under every key it holds one error for each error collected
\* with a plain message and m errors for each one collected with a sequence
\* message of m elements.
C30_AggregateNotEmpty ==
    (pc = "done" /\ outcome.result = "raised") =>
        /\ Len(outcome.errors) >= 1
        /\ RawKeys(outcome.errors) # <<>>
        /\ \A k \in Keys :
              Len(SelectSeq(outcome.errors, LAMBDA e : e.key = k)) = Weight(errors, k)

(***************************************************************************)
(* The context variables                                                   *)
(***************************************************************************)
\* C24: every error of the aggregate raised by a load belongs to the key
\* that was being processed when it was created: an unknown-field or
\* required error carries no context of any field, and any context an
\* error carries has the field of the error's key and the value that the
\* input has for that key.
C24_ErrorAttribution ==
    (op.kind = "load" /\ pc = "done" /\ outcome.result = "raised") =>
        \A n \in DOMAIN outcome.errors :
            LET e == outcome.errors[n]
            IN  /\ e.code \in {"unknown_field", "required"} => e.context = NoContext
                /\ e.context # NoContext =>
                       /\ e.context.field = e.key
                       /\ \E m \in DOMAIN data : data[m] = <<e.key, e.context.value>>

\* C29: when a load or a dump has ended, returning or raising, the three
\* context variables are bound to what they were bound to when it began.
C29_AmbientRestored ==
    (pc = "done" /\ op.kind \in {"load", "dump"}) => Ambient = entry

(***************************************************************************)
(* Field configurations                                                    *)
(***************************************************************************)
\* C27: in every field configuration, built by the constructor or by
\* copy() with overrides, a field that has a default is not required, and
\* a load whose input lacks the field gives it no required error.
C27_DefaultNotRequired ==
    \A k \in Names :
        fields[k].default # MISSING =>
            /\ ~required(fields[k])
            /\ (op.kind = "load" /\ pc \in {"validators", "done"} /\ k \notin DataKeys) =>
                   ErrorsOf(k, "required") = {}

\* C25: assigning None to a nullable field of an initialized instance
\* succeeds: value_set is not called, no error is raised, and when the
\* assignment has ended the field holds None.
C25_NullAssignment ==
    (op.kind = "set" /\ pc # "idle" /\ data[1][2] = None /\ fields[op.field].none) =>
        /\ CallsOf("value_set", op.field) = {}
        /\ errors = <<>>
        /\ outcome.result \notin {"raised", "escaped"}
        /\ pc = "done" =>
               /\ outcome.result = "returned"
               /\ field_values[op.inst][op.field] = None

(***************************************************************************)
(* Validators and the stored value                                         *)
(***************************************************************************)
\* the calls of the normal validators of a field that raised a FieldError
Rejections(k) ==
    {m \in CallsOf("validator", k) : ~calls[m].raw /\ calls[m].out = "field_error"}

\* C26: during and after a load or an assignment the instance never holds,
\* for a field, a value that one of the normal validators of the field has
\* rejected in that call; and a normal validator of a field is called only
\* after every raw validator of the field has been called.
C26_StoredOnlyIfValid ==
    (op.kind \in {"load", "set"} /\ pc # "idle") =>
        \A k \in Names :
            /\ \A m \in Rejections(k) : field_values[op.inst][k] # calls[m].value
            /\ \A m \in CallsOf("validator", k) :
                   ~calls[m].raw =>
                       \A i \in DOMAIN fields[k]._raw_validators :
                           \E n \in CallsOf("validator", k) :
                               n < m /\ calls[n].raw /\ calls[n].idx = i

(***************************************************************************)
(* TypeValidator: tuple types                                              *)
(***************************************************************************)
\* the items of the checked tuples, a str, an int, a bool and a float, and
\* the types of the items of a tuple type
ItemValues == {"t", "n2", "true", "f3"}
ItemTypes == {"str", "int", "float"}
Ellipsis == "..."

\* isinstance(value, tp) for the items above: bool is a subclass of int
isinstance(value, tp) ==
    \/ value = "t" /\ tp = "str"
    \/ value \in {"n2", "true"} /\ tp = "int"
    \/ value = "f3" /\ tp = "float"

\* the messages of the tuple handler
TupleMessage(code, index, length, current, tp) ==
    [code |-> code, index |-> index, length |-> length, current |-> current, type |-> tp]

\* TypeValidator._process_value for a type without origin:
\* `isinstance(value, tp), [f'Must be of type {tp.__name__}']`
_process_value(value, tp) == isinstance(value, tp)

\* TypeValidator._handle_origin_tuple(value, tp), with args = get_args(tp).
\* `At[m]` is the state of the loop after m iterations: for Tuple[T, ...]
\* the loop runs over the items of the value, otherwise over the types of
\* args, and ends at the first index that the value does not have
_handle_origin_tuple(value, args) ==
    IF ~value.tuple
    THEN [validated |-> FALSE, done |-> TRUE,
          errors |-> <<TupleMessage("Must be a valid tuple", 0, 0, 0, "")>>]
    ELSE IF Len(args) = 2 /\ args[2] = Ellipsis
    THEN LET At[m \in 0..Len(value.items)] ==
                 IF m = 0 THEN <<>>
                 ELSE IF _process_value(value.items[m], args[1]) THEN At[m - 1]
                 ELSE Append(At[m - 1], TupleMessage("Tuple item at index", m - 1, 0, 0, args[1]))
             errs == At[Len(value.items)]
         IN  [validated |-> errs = <<>>, done |-> TRUE, errors |-> errs]
    ELSE LET At[m \in 0..Len(args)] ==
                 IF m = 0 THEN [errors |-> <<>>, broken |-> FALSE]
                 ELSE LET prev == At[m - 1]
                      IN  IF prev.broken THEN prev
                          ELSE IF m > Len(value.items)
                          THEN [errors |-> Append(prev.errors,
                                               TupleMessage("Tuple length must be", 0, Len(args),
                                                            Len(value.items), "")),
                                broken |-> TRUE]
                          ELSE IF _process_value(value.items[m], args[m]) THEN prev
                          ELSE [prev EXCEPT !.errors =
                                   Append(@, TupleMessage("Tuple item at index", m - 1, 0, 0, args[m]))]
             errs == At[Len(args)].errors
         IN  [validated |-> errs = <<>>, done |-> TRUE, errors |-> errs]

\* the tuple types Tuple[T1, ..., Tn] and Tuple[T, ...], as their arguments
TupleTypes ==
    UNION {[1..n -> ItemTypes] : n \in 1..MaxArity} \cup {<<t, Ellipsis>> : t \in ItemTypes}
\* the checked values: tuples of items, and a value that is not a tuple
TupleValues ==
    {[tuple |-> TRUE, items |-> i] : i \in UNION {[1..n -> ItemValues] : n \in 0..MaxItems}}
        \cup {NoValue}

\* TypeValidator(tp).validate(value)
Validate ==
    /\ ~validation.done
    /\ validation' = _handle_origin_tuple(checked, type_expr)
    /\ UNCHANGED <<type_expr, checked, type_fields, dicts, bindings, defining, lists, field_lists,
                   configvars, callvars>>

InitTypes ==
    /\ insts = {"A"}
    /\ fields = [a |-> PlainA, b |-> BField]
    /\ ignore_extra = FALSE
    /\ ClassStart
    /\ CallStart
    /\ type_expr \in TupleTypes
    /\ checked \in TupleValues
    /\ validation = NotValidated

NextTypes == Validate

SpecTypes == InitTypes /\ [][NextTypes]_vars

\* Tuple[T1, ..., Tn], not Tuple[T, ...]
FixedArity(args) == ~(Len(args) = 2 /\ args[2] = Ellipsis)

\* C28: a value is accepted for Tuple[T1, ..., Tn] exactly when it is a
\* tuple of n items whose i-th item is of type Ti; a tuple of any other
\* length is rejected with the message 'Tuple length must be n'.
C28_FixedArityTuple ==
    (validation.done /\ FixedArity(type_expr)) =>
        LET n == Len(type_expr)
        IN  /\ validation.validated <=>
                   /\ checked.tuple
                   /\ Len(checked.items) = n
                   /\ \A i \in 1..n : isinstance(checked.items[i], type_expr[i])
            /\ (checked.tuple /\ Len(checked.items) # n) =>
                   /\ ~validation.validated
                   /\ \E m \in DOMAIN validation.errors :
                          /\ validation.errors[m].code = "Tuple length must be"
                          /\ validation.errors[m].length = n

====
